---- MODULE Spec2Model ----
(***************************************************************************)
(* Model of src/app.py: TrafficSignalSystem, a four-lane traffic signal    *)
(* controller.  One scheduler thread (manage_signals) rotates the green    *)
(* lane; one pipeline thread per lane (detect_vehicles) reads video        *)
(* frames, runs the detector on every third frame and writes the lane's    *)
(* fields; the Flask handlers signal_data and vehicle_logs read them.      *)
(* No lock is taken anywhere in the source, so every read and every write  *)
(* of a shared list element is a step of its own.                          *)
(***************************************************************************)
EXTENDS Integers, Sequences, FiniteSets, TLC

(***************************************************************************)
(* Program constants                                                       *)
(***************************************************************************)
N == 4
min_green_time == 10
max_green_time == 60
low_threshold == 5
high_threshold == 15
frame_skip == 3
PollInterval == 1

(***************************************************************************)
(* Bounds of the model                                                     *)
(***************************************************************************)
MaxTime == 62
MaxCount == 20
MaxFrames == 4
VideoLen == 2
MaxGtCount == 120
MaxLiveTime == 340

Lanes == 0 .. (N - 1)
\* the vehicle counts the detector may report: the lowest and the highest tier
\* of get_green_time (every tier is covered by SpecGreenTime)
CountVals == {0, MaxCount}
\* the lanes whose pipeline thread has been started in SpecPipe: the threads
\* are started in lane order, so lane 0 may run alone for any length of time
PipeLanes == {0}
NoSpeed == -1
None == 0

VARIABLES
  now,                \* the clock, time.time(), in whole seconds since construction
  sched_pc,           \* position of the manage_signals thread
  current_time,       \* manage_signals' local current_time
  current_green,      \* self.current_green
  last_signal_change, \* self.last_signal_change
  signal_states,      \* self.signal_states
  vehicle_counts,     \* self.vehicle_counts
  average_speeds,     \* self.average_speeds
  detected_vehicles,  \* self.detected_vehicles
  frames,             \* self.frames (a frame is the index of the frame in the video, None = 0)
  cap_pos,            \* self.caps[l]: position of the next frame to read
  pipe_pc,            \* position of each detect_vehicles thread
  frame_count,        \* detect_vehicles' local frame_count
  frame,              \* detect_vehicles' local frame
  result,             \* detect_vehicles' local result
  obs_seq,            \* history: number of frames lane l's detector was invoked on
  obs_of,             \* history: the observation each field of lane l was written from
  seen,               \* history: the observations a reader took count and vehicles from
  entry_count,        \* history: the green lane's count when it became green
  poll_snap,          \* history: the schedule state the last poll started from
  gt_count,           \* get_green_time's argument (SpecGreenTime)
  gt_result,          \* get_green_time's return value (SpecGreenTime)
  sd_pc,              \* position of a signal_data request
  sd_i,               \* signal_data's loop variable i
  sd_count,           \* signal_data: the count read at line 119, before line 120 is evaluated
  signal_info,        \* signal_data's local signal_info
  stream,             \* the lane_idx and the last outcome of a generate_frame call
  rewound,            \* history: why lane l's capture was last rewound
  held,               \* history: the (count, colour) pairs each lane held during the request
  sd_clean            \* history: no count or colour was written during the request

schedVars == <<now, sched_pc, current_time, current_green, last_signal_change, signal_states>>
laneVars == <<average_speeds, detected_vehicles, frames>>
pipeVars == <<cap_pos, pipe_pc, frame_count, frame, result>>
histVars == <<obs_seq, obs_of, seen>>
schedHist == <<entry_count, poll_snap>>
gtVars == <<gt_count, gt_result>>
sdVars == <<sd_pc, sd_i, sd_count, signal_info>>
sdHist == <<held, sd_clean>>
rdVars == <<sdVars, stream, rewound, sdHist>>
vars == <<schedVars, vehicle_counts, laneVars, pipeVars, histVars, schedHist, gtVars, rdVars>>

(***************************************************************************)
(* get_green_time                                                          *)
(***************************************************************************)
get_green_time_le(vehicle_count) ==
  IF vehicle_count <= low_threshold THEN min_green_time
  ELSE IF vehicle_count <= high_threshold THEN (max_green_time + min_green_time) \div 2
  ELSE max_green_time

get_green_time(vehicle_count) ==
  IF vehicle_count < low_threshold THEN min_green_time
  ELSE IF vehicle_count < high_threshold THEN (max_green_time + min_green_time) \div 2
  ELSE max_green_time

(***************************************************************************)
(* manage_signals                                                          *)
(***************************************************************************)
\* the condition of line 40
ShouldChange_ge(t, last, count) == t - last >= get_green_time(count)

ShouldChange(t, last, count) == t - last > get_green_time(count)

\* the count line 40 passes to get_green_time
PollCount_entry == entry_count

PollCount == vehicle_counts[current_green]

\* line 42 without the advance
NextLane_same(i) == i

\* the lane line 42 advances to
NextLane_busiest(i) ==
  CHOOSE j \in Lanes : \A k \in Lanes :
    vehicle_counts[j] > vehicle_counts[k] \/ (vehicle_counts[j] = vehicle_counts[k] /\ j <= k)

NextLane(i) == (i + 1) % N

NoSnap == [taken |-> FALSE]

NoStream == [idx |-> 0, status |-> "idle", lane |-> -1, frame |-> None]

NoneHeld == [l \in Lanes |-> {}]

\* history: a count or a colour is written while a signal_data request runs
NoteWrite ==
  /\ held' = IF sd_pc = "idle" THEN held
             ELSE [l \in Lanes |-> held[l] \cup {<<vehicle_counts'[l], signal_states'[l]>>}]
  /\ sd_clean' = (sd_clean /\ sd_pc = "idle")

\* lines 39-40: read the clock, evaluate the condition
SchedPoll ==
  /\ sched_pc = "poll"
  /\ current_time' = now
  /\ sched_pc' = IF ShouldChange(now, last_signal_change, PollCount) THEN "set_red" ELSE "sleep"
  /\ poll_snap' = [taken |-> TRUE, green |-> current_green, last |-> last_signal_change,
                   signals |-> signal_states,
                   expired |-> (now - last_signal_change
                                  > get_green_time(vehicle_counts[current_green]))]
  /\ UNCHANGED <<now, current_green, last_signal_change, signal_states, vehicle_counts,
                 laneVars, pipeVars, histVars, entry_count, gtVars, rdVars>>

\* line 41 left out: the lane that loses the green keeps its colour
SchedSetRed_skip ==
  /\ sched_pc = "set_red"
  /\ sched_pc' = "advance"
  /\ UNCHANGED <<now, current_time, current_green, last_signal_change, signal_states,
                 vehicle_counts, laneVars, pipeVars, histVars, schedHist, gtVars, rdVars>>

\* line 41
SchedSetRed ==
  /\ sched_pc = "set_red"
  /\ signal_states' = [signal_states EXCEPT ![current_green] = "red"]
  /\ sched_pc' = "advance"
  /\ UNCHANGED <<now, current_time, current_green, last_signal_change, vehicle_counts,
                 laneVars, pipeVars, histVars, schedHist, gtVars, sdVars, stream, rewound>>
  /\ NoteWrite

\* line 42
SchedAdvance ==
  /\ sched_pc = "advance"
  /\ current_green' = NextLane(current_green)
  /\ sched_pc' = "set_green"
  /\ UNCHANGED <<now, current_time, last_signal_change, signal_states, vehicle_counts,
                 laneVars, pipeVars, histVars, schedHist, gtVars, rdVars>>

\* line 43
SchedSetGreen ==
  /\ sched_pc = "set_green"
  /\ signal_states' = [signal_states EXCEPT ![current_green] = "green"]
  /\ entry_count' = vehicle_counts[current_green]
  /\ sched_pc' = "set_time"
  /\ UNCHANGED <<now, current_time, current_green, last_signal_change, vehicle_counts,
                 laneVars, pipeVars, histVars, poll_snap, gtVars, sdVars, stream, rewound>>
  /\ NoteWrite

\* line 44
SchedSetTime ==
  /\ sched_pc = "set_time"
  /\ last_signal_change' = current_time
  /\ sched_pc' = "sleep"
  /\ UNCHANGED <<now, current_time, current_green, signal_states, vehicle_counts,
                 laneVars, pipeVars, histVars, schedHist, gtVars, rdVars>>

\* line 45: time.sleep(1), while the clock is below limit
SleepBelow(limit) ==
  /\ sched_pc = "sleep"
  /\ now < limit
  /\ now' = now + PollInterval
  /\ sched_pc' = "poll"
  /\ poll_snap' = NoSnap
  /\ UNCHANGED <<current_time, current_green, last_signal_change, signal_states,
                 vehicle_counts, laneVars, pipeVars, histVars, entry_count, gtVars, rdVars>>

SchedSleep == SleepBelow(MaxTime)

\* the same sleep under the longer clock of SpecLive
SchedSleepLive == SleepBelow(MaxLiveTime)

\* line 58 as the scheduler sees it: lane l's pipeline stores a new count
PublishCount(l, n) ==
  /\ vehicle_counts[l] # n
  /\ vehicle_counts' = [vehicle_counts EXCEPT ![l] = n]
  /\ UNCHANGED <<schedVars, laneVars, pipeVars, histVars, schedHist, gtVars, sdVars, stream, rewound>>
  /\ NoteWrite

(***************************************************************************)
(* Initial state: __init__, lines 14-34, and the locals of the threads     *)
(***************************************************************************)
InitBase ==
  /\ now = 0
  /\ sched_pc = "poll"
  /\ current_time = 0
  /\ current_green = 0
  /\ last_signal_change = 0
  /\ signal_states = [l \in Lanes |-> "red"]
  /\ vehicle_counts = [l \in Lanes |-> 0]
  /\ average_speeds = [l \in Lanes |-> 0]
  /\ detected_vehicles = [l \in Lanes |-> <<>>]
  /\ frames = [l \in Lanes |-> None]
  /\ cap_pos = [l \in Lanes |-> 0]
  /\ pipe_pc = [l \in Lanes |-> "read"]
  /\ frame_count = [l \in Lanes |-> 0]
  /\ frame = [l \in Lanes |-> None]
  /\ result = [l \in Lanes |-> None]
  /\ obs_seq = [l \in Lanes |-> 0]
  /\ obs_of = [l \in Lanes |-> [frame |-> 0, count |-> 0, speed |-> 0, vehicles |-> 0]]
  /\ seen = [l \in Lanes |-> [count |-> -1, vehicles |-> -1]]
  /\ entry_count = 0
  /\ poll_snap = NoSnap
  /\ sd_pc = "idle"
  /\ sd_i = 0
  /\ sd_count = 0
  /\ signal_info = <<>>
  /\ stream = NoStream
  /\ rewound = [l \in Lanes |-> "no"]
  /\ held = NoneHeld
  /\ sd_clean = TRUE

Init ==
  /\ InitBase
  /\ gt_count = 0
  /\ gt_result = -1

SchedNext ==
  \/ SchedPoll
  \/ SchedSetRed
  \/ SchedAdvance
  \/ SchedSetGreen
  \/ SchedSetTime
  \/ SchedSleep

Next ==
  \/ SchedNext
  \/ \E l \in Lanes, n \in CountVals : PublishCount(l, n)

Spec == Init /\ [][Next]_vars

(***************************************************************************)
(* The detector and process_lane_result                                    *)
(***************************************************************************)
\* the results process_frame may return: number_of_vehicles_detected and the
\* kph of each detected vehicle (NoSpeed: speed_info.kph is None)
Results ==
  { [n |-> 0, vehicles |-> <<>>],
    [n |-> 3, vehicles |-> <<30, NoSpeed, 50>>],
    [n |-> MaxCount, vehicles |-> <<NoSpeed>>] }

RECURSIVE SumSeq(_)
SumSeq(q) == IF q = <<>> THEN 0 ELSE Head(q) + SumSeq(Tail(q))

HasSpeed(kph) == kph # NoSpeed

\* line 59 without its filter: the vehicles that report no speed are kept
Speeds_all(vehicles) == vehicles

\* line 59
Speeds(vehicles) == SelectSeq(vehicles, HasSpeed)

\* line 60: np.mean(speeds) if speeds else 0 (the results above have whole means)
MeanSpeed(speeds) == IF speeds = <<>> THEN 0 ELSE SumSeq(speeds) \div Len(speeds)

(***************************************************************************)
(* detect_vehicles, the thread of lane l                                   *)
(***************************************************************************)
\* lines 70-72: cap.read() returns the next frame
PipeReadOk(l) ==
  /\ pipe_pc[l] = "read"
  /\ cap_pos[l] < VideoLen
  /\ frame_count[l] < MaxFrames
  /\ frame' = [frame EXCEPT ![l] = cap_pos[l] + 1]
  /\ cap_pos' = [cap_pos EXCEPT ![l] = cap_pos[l] + 1]
  /\ pipe_pc' = [pipe_pc EXCEPT ![l] = IF frame_count[l] % frame_skip = 0 THEN "detect" ELSE "inc"]
  /\ UNCHANGED <<schedVars, vehicle_counts, laneVars, frame_count, result, histVars,
                 schedHist, gtVars, rdVars>>

\* lines 70-71, 78: cap.read() fails on a frame in the middle of the stream
PipeReadFail(l) ==
  /\ pipe_pc[l] = "read"
  /\ cap_pos[l] < VideoLen
  /\ frame' = [frame EXCEPT ![l] = None]
  /\ pipe_pc' = [pipe_pc EXCEPT ![l] = "rewind"]
  /\ UNCHANGED <<schedVars, vehicle_counts, laneVars, cap_pos, frame_count, result,
                 histVars, schedHist, gtVars, rdVars>>

\* lines 70-71, 78: cap.read() at the end of the stream
PipeReadEnd(l) ==
  /\ pipe_pc[l] = "read"
  /\ cap_pos[l] = VideoLen
  /\ frame' = [frame EXCEPT ![l] = None]
  /\ pipe_pc' = [pipe_pc EXCEPT ![l] = "rewind"]
  /\ UNCHANGED <<schedVars, vehicle_counts, laneVars, cap_pos, frame_count, result,
                 histVars, schedHist, gtVars, rdVars>>

\* line 79, and the frame counter is reset with the capture
PipeRewind_reset(l) ==
  /\ pipe_pc[l] = "rewind"
  /\ cap_pos' = [cap_pos EXCEPT ![l] = 0]
  /\ frame_count' = [frame_count EXCEPT ![l] = 0]
  /\ pipe_pc' = [pipe_pc EXCEPT ![l] = "read"]
  /\ rewound' = [rewound EXCEPT ![l] = IF cap_pos[l] = VideoLen THEN "eos" ELSE "fault"]
  /\ UNCHANGED <<schedVars, vehicle_counts, laneVars, frame, result,
                 histVars, schedHist, gtVars, sdVars, stream, sdHist>>

\* line 79
PipeRewind(l) ==
  /\ pipe_pc[l] = "rewind"
  /\ cap_pos' = [cap_pos EXCEPT ![l] = 0]
  /\ pipe_pc' = [pipe_pc EXCEPT ![l] = "read"]
  /\ rewound' = [rewound EXCEPT ![l] = IF cap_pos[l] = VideoLen THEN "eos" ELSE "fault"]
  /\ UNCHANGED <<schedVars, vehicle_counts, laneVars, frame_count, frame, result,
                 histVars, schedHist, gtVars, sdVars, stream, sdHist>>

\* lines 73-74: process_frame returns a result
PipeDetect(l) ==
  /\ pipe_pc[l] = "detect"
  /\ \E r \in Results : result' = [result EXCEPT ![l] = r]
  /\ obs_seq' = [obs_seq EXCEPT ![l] = obs_seq[l] + 1]
  /\ pipe_pc' = [pipe_pc EXCEPT ![l] = "w_frame"]
  /\ UNCHANGED <<schedVars, vehicle_counts, laneVars, cap_pos, frame_count, frame,
                 obs_of, seen, schedHist, gtVars, rdVars>>

\* line 74: process_frame raises; nothing in detect_vehicles catches it, so the
\* exception ends the thread
PipeDetectFail(l) ==
  /\ pipe_pc[l] = "detect"
  /\ pipe_pc' = [pipe_pc EXCEPT ![l] = "crashed"]
  /\ UNCHANGED <<schedVars, vehicle_counts, laneVars, cap_pos, frame_count, frame, result,
                 histVars, schedHist, gtVars, rdVars>>

\* line 75
PipeWriteFrame(l) ==
  /\ pipe_pc[l] = "w_frame"
  /\ frames' = [frames EXCEPT ![l] = frame[l]]
  /\ obs_of' = [obs_of EXCEPT ![l].frame = obs_seq[l]]
  /\ pipe_pc' = [pipe_pc EXCEPT ![l] = "w_count"]
  /\ UNCHANGED <<schedVars, vehicle_counts, average_speeds, detected_vehicles, cap_pos,
                 frame_count, frame, result, obs_seq, seen, schedHist, gtVars, rdVars>>

\* line 58 with the index of the next lane
PipeWriteCount_other(l) ==
  /\ pipe_pc[l] = "w_count"
  /\ vehicle_counts' = [vehicle_counts EXCEPT ![(l + 1) % N] = result[l].n]
  /\ obs_of' = [obs_of EXCEPT ![l].count = obs_seq[l]]
  /\ pipe_pc' = [pipe_pc EXCEPT ![l] = "w_speed"]
  /\ UNCHANGED <<schedVars, laneVars, cap_pos, frame_count, frame, result, obs_seq, seen,
                 schedHist, gtVars, sdVars, stream, rewound>>
  /\ NoteWrite

\* line 58
PipeWriteCount(l) ==
  /\ pipe_pc[l] = "w_count"
  /\ vehicle_counts' = [vehicle_counts EXCEPT ![l] = result[l].n]
  /\ obs_of' = [obs_of EXCEPT ![l].count = obs_seq[l]]
  /\ pipe_pc' = [pipe_pc EXCEPT ![l] = "w_speed"]
  /\ UNCHANGED <<schedVars, laneVars, cap_pos, frame_count, frame, result, obs_seq, seen,
                 schedHist, gtVars, sdVars, stream, rewound>>
  /\ NoteWrite

\* lines 59-60
PipeWriteSpeed(l) ==
  /\ pipe_pc[l] = "w_speed"
  /\ average_speeds' = [average_speeds EXCEPT ![l] = MeanSpeed(Speeds(result[l].vehicles))]
  /\ obs_of' = [obs_of EXCEPT ![l].speed = obs_seq[l]]
  /\ pipe_pc' = [pipe_pc EXCEPT ![l] = "w_vehicles"]
  /\ UNCHANGED <<schedVars, vehicle_counts, detected_vehicles, frames, cap_pos, frame_count,
                 frame, result, obs_seq, seen, schedHist, gtVars, rdVars>>

\* line 61
PipeWriteVehicles(l) ==
  /\ pipe_pc[l] = "w_vehicles"
  /\ detected_vehicles' = [detected_vehicles EXCEPT ![l] = result[l].vehicles]
  /\ obs_of' = [obs_of EXCEPT ![l].vehicles = obs_seq[l]]
  /\ pipe_pc' = [pipe_pc EXCEPT ![l] = "inc"]
  /\ UNCHANGED <<schedVars, vehicle_counts, average_speeds, frames, cap_pos, frame_count,
                 frame, result, obs_seq, seen, schedHist, gtVars, rdVars>>

\* line 77
PipeInc(l) ==
  /\ pipe_pc[l] = "inc"
  /\ frame_count' = [frame_count EXCEPT ![l] = frame_count[l] + 1]
  /\ pipe_pc' = [pipe_pc EXCEPT ![l] = "read"]
  /\ UNCHANGED <<schedVars, vehicle_counts, laneVars, cap_pos, frame, result, histVars,
                 schedHist, gtVars, rdVars>>

(***************************************************************************)
(* The readers: signal_data and vehicle_logs                               *)
(***************************************************************************)
\* line 119: signal_data reads lane l's count
SignalDataReadCount(l) ==
  /\ seen' = [seen EXCEPT ![l].count = obs_of[l].count]
  /\ UNCHANGED <<schedVars, vehicle_counts, laneVars, pipeVars, obs_seq, obs_of,
                 schedHist, gtVars, rdVars>>

\* line 128: vehicle_logs reads lane l's vehicle list
VehicleLogsRead(l) ==
  /\ seen' = [seen EXCEPT ![l].vehicles = obs_of[l].vehicles]
  /\ UNCHANGED <<schedVars, vehicle_counts, laneVars, pipeVars, obs_seq, obs_of,
                 schedHist, gtVars, rdVars>>

\* line 118
LaneNumber_zero(i) == i

LaneNumber(i) == i + 1

\* lines 115-116: a signal_data request starts
SdStart ==
  /\ sd_pc = "idle"
  /\ sd_pc' = "count"
  /\ sd_i' = 0
  /\ signal_info' = <<>>
  /\ held' = [l \in Lanes |-> {<<vehicle_counts[l], signal_states[l]>>}]
  /\ sd_clean' = TRUE
  /\ UNCHANGED <<schedVars, vehicle_counts, laneVars, pipeVars, histVars, schedHist, gtVars,
                 sd_count, stream, rewound>>

\* line 119: traffic_system.vehicle_counts[i]
SdReadCount ==
  /\ sd_pc = "count"
  /\ sd_count' = vehicle_counts[sd_i]
  /\ sd_pc' = "signal"
  /\ UNCHANGED <<schedVars, vehicle_counts, laneVars, pipeVars, histVars, schedHist, gtVars,
                 sd_i, signal_info, stream, rewound, sdHist>>

\* lines 116-121: traffic_system.signal_states[i], append, next i
SdReadSignal ==
  /\ sd_pc = "signal"
  /\ signal_info' = Append(signal_info, [lane |-> LaneNumber(sd_i), vehicle_count |-> sd_count,
                                          signal |-> signal_states[sd_i]])
  /\ sd_i' = sd_i + 1
  /\ sd_count' = 0
  /\ sd_pc' = IF sd_i + 1 < N THEN "count" ELSE "done"
  /\ UNCHANGED <<schedVars, vehicle_counts, laneVars, pipeVars, histVars, schedHist, gtVars,
                 stream, rewound, sdHist>>

\* line 122: the request returns signal_info
SdReturn ==
  /\ sd_pc = "done"
  /\ sd_pc' = "idle"
  /\ sd_i' = 0
  /\ sd_count' = 0
  /\ signal_info' = <<>>
  /\ held' = NoneHeld
  /\ sd_clean' = TRUE
  /\ UNCHANGED <<schedVars, vehicle_counts, laneVars, pipeVars, histVars, schedHist, gtVars,
                 stream, rewound>>

SdNext ==
  \/ SdStart
  \/ SdReadCount
  \/ SdReadSignal
  \/ SdReturn

(***************************************************************************)
(* generate_frame, called by video_feed                                    *)
(***************************************************************************)
\* the lane_idx values a caller passes: every lane and values on both sides
StreamIdx == (0 - N - 1) .. N

\* self.frames[lane_idx]: a Python list takes -N .. N-1 and counts a negative
\* index from the end
ValidIndex(idx) == idx >= 0 - N /\ idx < N

ListIndex(idx) == IF idx < 0 THEN idx + N ELSE idx

\* lines 83-89: one turn of the loop of generate_frame(idx)
GenerateFrame(idx) ==
  /\ stream' =
       IF ~ValidIndex(idx)
       THEN [idx |-> idx, status |-> "IndexError", lane |-> -1, frame |-> None]
       ELSE IF frames[ListIndex(idx)] # None
       THEN [idx |-> idx, status |-> "frame", lane |-> ListIndex(idx),
             frame |-> frames[ListIndex(idx)]]
       ELSE [idx |-> idx, status |-> "waiting", lane |-> ListIndex(idx), frame |-> None]
  /\ stream' # stream
  /\ UNCHANGED <<schedVars, vehicle_counts, laneVars, pipeVars, histVars, schedHist, gtVars,
                 sdVars, rewound, sdHist>>

PipeNext(l) ==
  \/ PipeReadOk(l)
  \/ PipeReadFail(l)
  \/ PipeReadEnd(l)
  \/ PipeRewind(l)
  \/ PipeDetect(l)
  \/ PipeDetectFail(l)
  \/ PipeWriteFrame(l)
  \/ PipeWriteCount(l)
  \/ PipeWriteSpeed(l)
  \/ PipeWriteVehicles(l)
  \/ PipeInc(l)

NextPipe ==
  \/ \E l \in PipeLanes : PipeNext(l)
  \/ \E l \in PipeLanes : SignalDataReadCount(l)
  \/ \E l \in PipeLanes : VehicleLogsRead(l)
  \/ \E idx \in StreamIdx : GenerateFrame(idx)

\* the pipeline of the first lane and the readers
SpecPipe == Init /\ [][NextPipe]_vars

NextFrame ==
  \/ SchedNext
  \/ \E l \in PipeLanes : PipeNext(l)

\* the scheduler and the pipeline of the first lane
SpecFrame == Init /\ [][NextFrame]_vars

\* the lanes whose pipeline publishes counts in SpecLive
LiveLanes == {1}

SchedNextLive ==
  \/ SchedPoll
  \/ SchedSetRed
  \/ SchedAdvance
  \/ SchedSetGreen
  \/ SchedSetTime
  \/ SchedSleepLive

NextLive ==
  \/ SchedNextLive
  \/ \E l \in LiveLanes, n \in CountVals : PublishCount(l, n)

\* the scheduler on a clock long enough for a full rotation, its thread being
\* scheduled again and again
SpecLive == Init /\ [][NextLive]_vars /\ WF_vars(SchedNextLive)

\* the lanes whose pipeline publishes counts in SpecSnap
SnapLanes == {1}

NextSnap ==
  \/ SchedNext
  \/ \E l \in SnapLanes, n \in CountVals : PublishCount(l, n)
  \/ SdNext

\* the scheduler, the counts of one lane and a signal_data request
SpecSnap == Init /\ [][NextSnap]_vars

(***************************************************************************)
(* get_green_time applied to every count up to MaxGtCount                  *)
(***************************************************************************)
InitGt ==
  /\ InitBase
  /\ gt_count \in 0 .. MaxGtCount
  /\ gt_result = -1

CallGreenTime ==
  /\ gt_result = -1
  /\ gt_result' = get_green_time(gt_count)
  /\ UNCHANGED <<schedVars, vehicle_counts, laneVars, pipeVars, histVars, schedHist, gt_count, rdVars>>

SpecGreenTime == InitGt /\ [][CallGreenTime]_vars

(***************************************************************************)
(* Properties of the scheduler (Spec)                                      *)
(***************************************************************************)
IsGreenOnly(g) ==
  /\ signal_states[g] = "green"
  /\ \A l \in Lanes \ {g} : signal_states[l] = "red"

\* C1: in every reachable state exactly one lane is GREEN and all the other
\* lanes are RED.
ExactlyOneGreen == \E g \in Lanes : IsGreenOnly(g)

\* C2: every change of current_green goes from lane i to lane (i+1) mod N,
\* whatever the vehicle counts of the lanes are.
RoundRobinOnly ==
  [][current_green' # current_green => current_green' = (current_green + 1) % N]_vars

\* C2 witness: the scheduler has just advanced from lane 3 round to lane 0
\* although another lane holds more vehicles than lane 0.
RoundRobinWrapped ==
  /\ sched_pc = "set_green"
  /\ current_green = 0
  /\ \E l \in Lanes : vehicle_counts[l] > vehicle_counts[0]

PollEffect ==
  (sched_pc = "sleep" /\ poll_snap.taken) =>
    IF poll_snap.expired
    THEN /\ current_green = (poll_snap.green + 1) % N
         /\ signal_states = [poll_snap.signals EXCEPT ![poll_snap.green] = "red",
                                                      ![(poll_snap.green + 1) % N] = "green"]
         /\ last_signal_change = now
    ELSE /\ current_green = poll_snap.green
         /\ signal_states = poll_snap.signals
         /\ last_signal_change = poll_snap.last

\* C7 witness: all counts 0; the first poll later than 10 s has made lane 0
\* RED and lane 1 GREEN and has reset last_signal_change.
FirstTransitionDone ==
  /\ sched_pc = "sleep"
  /\ \A l \in Lanes : vehicle_counts[l] = 0
  /\ now = min_green_time + 1
  /\ last_signal_change = now
  /\ current_green = 1
  /\ IsGreenOnly(1)

\* the scheduler has made no transition yet
NoTransitionYet ==
  /\ current_green = 0
  /\ last_signal_change = 0
  /\ sched_pc \in {"poll", "sleep"}

\* C8: from startup until the first scheduler transition lane 0 is GREEN and
\* every other lane is RED.
InitialLaneZeroGreen == NoTransitionYet => IsGreenOnly(0)

\* C19: a poll never ends a phase unless strictly more than min_green_time
\* has elapsed since last_signal_change, always ends it when more than
\* max_green_time has elapsed, and so never finds a phase older than
\* max_green_time plus one poll interval, whatever the counts did meanwhile.
PhaseWithinBounds ==
  [][(sched_pc = "poll" /\ sched_pc' # "poll")
       => /\ (sched_pc' = "set_red") => (now - last_signal_change > 10)
          /\ (now - last_signal_change > 60) => (sched_pc' = "set_red")
          /\ now - last_signal_change <= 60 + 1]_vars

\* C19 witness: a phase whose count changed on the way is ended by the first
\* poll later than max_green_time.
PhaseEndedAtMax ==
  /\ sched_pc = "set_red"
  /\ now - last_signal_change = max_green_time + PollInterval
  /\ entry_count # vehicle_counts[current_green]

\* C20: in every state, the states between the writes of a transition
\* included, a lane that is GREEN is the lane current_green names, so at most
\* one lane is GREEN, and current_green is in [0, N).
GreenIsCurrent ==
  /\ current_green \in 0 .. (N - 1)
  /\ \A l \in Lanes : signal_states[l] = "green" => l = current_green
  /\ Cardinality({l \in Lanes : signal_states[l] = "green"}) <= 1

\* C20 witness: a transition away from a lane that was GREEN has written RED
\* and advanced current_green and has not yet written GREEN, while another
\* lane's count is being changed.
BetweenTransitionWrites ==
  /\ sched_pc = "set_green"
  /\ last_signal_change > 0
  /\ \A l \in Lanes : signal_states[l] = "red"
  /\ \E l \in Lanes : vehicle_counts[l] # 0

(***************************************************************************)
(* Properties of the scheduler under fair scheduling (SpecLive)            *)
(***************************************************************************)
\* the longest a lane can wait for the green: four phases of at most
\* max_green_time plus one poll each
FullRotation == 4 * (60 + 1)

\* C18: the scheduler always has a next step, and from every state with a
\* full rotation of clock left every lane is GREEN again later, whatever the
\* counts do: no lane is starved.
NoLaneStarved ==
  /\ [](now < MaxLiveTime => ENABLED SchedNextLive)
  /\ \A i \in Lanes :
       [](now + FullRotation <= MaxLiveTime => <>(signal_states[i] = "green"))

\* C18 witness: lane 0 has the green back after a rotation in which lane 1
\* held it for a whole max_green_time.
RotationCompleted ==
  /\ signal_states[0] = "green"
  /\ sched_pc = "sleep"
  /\ last_signal_change >= 3 * (min_green_time + 1) + (max_green_time + 1)
  /\ vehicle_counts[1] = MaxCount

(***************************************************************************)
(* Properties of the pipeline next to the scheduler (SpecFrame)            *)
(***************************************************************************)
\* C12: a step of lane l's pipeline, a failed read, a rewind and a detector
\* failure included, changes no field, capture or pipeline position of
\* another lane and nothing of the scheduler; a step of the scheduler changes
\* no ingestion field and no pipeline; and the ingestion fields of a lane
\* change only in steps of its pipeline, the colours and the schedule state
\* only in steps of the scheduler.
WritersKeepApart ==
  [][/\ \A l \in Lanes :
          pipe_pc'[l] # pipe_pc[l] =>
            /\ \A m \in Lanes \ {l} :
                 /\ frames'[m] = frames[m]
                 /\ vehicle_counts'[m] = vehicle_counts[m]
                 /\ average_speeds'[m] = average_speeds[m]
                 /\ detected_vehicles'[m] = detected_vehicles[m]
                 /\ pipe_pc'[m] = pipe_pc[m]
                 /\ cap_pos'[m] = cap_pos[m]
                 /\ frame_count'[m] = frame_count[m]
            /\ UNCHANGED <<signal_states, current_green, last_signal_change, sched_pc, now>>
     /\ sched_pc' # sched_pc =>
          UNCHANGED <<frames, vehicle_counts, average_speeds, detected_vehicles,
                      pipe_pc, cap_pos, frame_count>>
     /\ \A l \in Lanes :
          (\/ frames'[l] # frames[l]
           \/ vehicle_counts'[l] # vehicle_counts[l]
           \/ average_speeds'[l] # average_speeds[l]
           \/ detected_vehicles'[l] # detected_vehicles[l]) => pipe_pc'[l] # pipe_pc[l]
     /\ (\/ signal_states' # signal_states
         \/ current_green' # current_green
         \/ last_signal_change' # last_signal_change) => sched_pc' # sched_pc]_vars

\* C12 witness: lane 0's pipeline has published, rewound and then stopped on a
\* detector failure, and the scheduler has gone on to give lane 1 the green.
SchedulerOutlivesPipeline ==
  /\ pipe_pc[0] = "crashed"
  /\ rewound[0] # "no"
  /\ vehicle_counts[0] = MaxCount
  /\ current_green = 1
  /\ signal_states[1] = "green"

(***************************************************************************)
(* Properties of signal_data (SpecSnap)                                    *)
(***************************************************************************)
\* C13: each entry signal_data reports is a pair of vehicle_count and signal
\* that its lane held together at one instant of the request.
EntriesHeldTogether ==
  \A k \in 1 .. Len(signal_info) :
    <<signal_info[k].vehicle_count, signal_info[k].signal>> \in held[k - 1]

\* C14: signal_data changes no lane or schedule state, and returns N entries
\* numbered 1..N in order which, when nothing was written during the request,
\* are the counts and colours of the state it ran in; so two requests with no
\* step in between return the same.
SnapshotPureRead ==
  /\ [](sd_pc = "done" =>
          /\ Len(signal_info) = 4
          /\ \A k \in 1 .. Len(signal_info) :
               /\ signal_info[k].lane = k
               /\ sd_clean => /\ signal_info[k].vehicle_count = vehicle_counts[k - 1]
                               /\ signal_info[k].signal = signal_states[k - 1])
  /\ [][sd_pc' # sd_pc =>
          UNCHANGED <<vehicle_counts, signal_states, current_green, last_signal_change,
                      average_speeds, detected_vehicles, frames>>]_vars

\* C14 witness: a request has returned undisturbed while a lane is green and
\* a lane holds vehicles.
SnapshotReturned ==
  /\ sd_pc = "done"
  /\ sd_clean
  /\ \E l \in Lanes : signal_states[l] = "green"
  /\ \E l \in Lanes : vehicle_counts[l] = MaxCount

(***************************************************************************)
(* Properties of the lane pipeline and the readers (SpecPipe)              *)
(***************************************************************************)
\* C4: a reader never observes the vehicle_count of one observation together
\* with the vehicles list of a different observation.
ReaderSeesOneObservation ==
  \A l \in Lanes :
    (seen[l].count # -1 /\ seen[l].vehicles # -1) => seen[l].count = seen[l].vehicles

\* C5: within a lane the published frame is never newer than the
\* vehicle_count paired with it.
FrameNotNewerThanCount == \A l \in Lanes : obs_of[l].frame <= obs_of[l].count

\* C9: a detector failure on a processed frame keeps the lane's frame,
\* vehicle_count, average_speed and vehicles and leaves the lane's pipeline
\* running (it goes on to count the frame and read the next one).
DetectorFailureRecoverable ==
  [][\A l \in Lanes :
       (pipe_pc[l] = "detect" /\ pipe_pc'[l] \notin {"detect", "w_frame"})
         => /\ frames'[l] = frames[l]
            /\ vehicle_counts'[l] = vehicle_counts[l]
            /\ average_speeds'[l] = average_speeds[l]
            /\ detected_vehicles'[l] = detected_vehicles[l]
            /\ pipe_pc'[l] \in {"inc", "read"}]_vars

\* C10: after a failed read in the middle of the stream the pipeline goes on
\* to read with the playback position where the failed read left it.
FailedReadKeepsPosition ==
  [][\A l \in Lanes :
       (pipe_pc[l] = "rewind" /\ cap_pos[l] < VideoLen /\ pipe_pc'[l] = "read")
         => cap_pos'[l] = cap_pos[l]]_vars

\* the positions of the vehicles of an observation that report a speed
WithSpeed(vs) == {i \in 1 .. Len(vs) : vs[i] # NoSpeed}

RECURSIVE SumAt(_, _)
SumAt(vs, S) ==
  IF S = {} THEN 0
  ELSE LET i == CHOOSE j \in S : TRUE IN vs[i] + SumAt(vs, S \ {i})

\* C15: once an observation is published, average_speeds of the lane is the
\* arithmetic mean of the speeds of the vehicles that report one (0 when none
\* does), and vehicle_counts is the observation's count field, however many
\* vehicles report a speed.
PublishedSpeedAndCount ==
  \A l \in Lanes :
    /\ (obs_seq[l] > 0 /\ obs_of[l].speed = obs_seq[l]) =>
         IF WithSpeed(result[l].vehicles) = {}
         THEN average_speeds[l] = 0
         ELSE average_speeds[l] * Cardinality(WithSpeed(result[l].vehicles))
                = SumAt(result[l].vehicles, WithSpeed(result[l].vehicles))
    /\ (obs_seq[l] > 0 /\ obs_of[l].count = obs_seq[l]) =>
         vehicle_counts[l] = result[l].n

\* C15 witness: the observation with speeds 30, none, 50 and count 3 is
\* published: the average is 40 and the count 3.
ScenarioCPublished ==
  \E l \in Lanes :
    /\ pipe_pc[l] = "inc"
    /\ obs_seq[l] > 0
    /\ obs_of[l].vehicles = obs_seq[l]
    /\ detected_vehicles[l] = <<30, NoSpeed, 50>>
    /\ average_speeds[l] = 40
    /\ vehicle_counts[l] = 3

\* C17: a pulled frame goes to the detector exactly when frame_count is a
\* multiple of frame_skip, a detection is followed by the publication of its
\* result, and frame_count changes only by one, at the end of the handling of
\* a pulled frame, which every pulled frame reaches.
PulledFrameHandling ==
  [][\A l \in Lanes :
       /\ (pipe_pc[l] = "read" /\ pipe_pc'[l] \in {"detect", "inc"})
            => ((pipe_pc'[l] = "detect") <=> (frame_count[l] % 3 = 0))
       /\ (pipe_pc[l] = "detect" /\ pipe_pc'[l] # "detect") => pipe_pc'[l] = "w_frame"
       /\ (pipe_pc[l] = "inc" /\ pipe_pc'[l] # "inc") => frame_count'[l] = frame_count[l] + 1
       /\ frame_count'[l] # frame_count[l] => pipe_pc[l] = "inc"
       /\ (pipe_pc[l] \in {"read", "inc", "rewind"})
            => /\ frames'[l] = frames[l]
               /\ vehicle_counts'[l] = vehicle_counts[l]
               /\ average_speeds'[l] = average_speeds[l]
               /\ detected_vehicles'[l] = detected_vehicles[l]]_vars

\* C11: generate_frame called with a lane_idx outside [0, N) reports a
\* lane-not-found error and emits no frame of any lane.
InvalidLaneRejected ==
  (stream.status # "idle" /\ stream.idx \notin 0 .. (N - 1))
    => (stream.status = "not_found" /\ stream.frame = None)

\* C16: at the end of the stream the pipeline does not stop but rewinds; the
\* rewind sets the capture to the beginning and changes neither frame_count
\* nor the lane's fields, and the next successful read returns the first
\* frame.
EndOfStreamRewinds ==
  [][\A l \in Lanes :
       /\ (pipe_pc[l] = "read" /\ cap_pos[l] = VideoLen /\ pipe_pc'[l] # "read")
            => pipe_pc'[l] = "rewind"
       /\ (pipe_pc[l] = "rewind" /\ pipe_pc'[l] # "rewind")
            => /\ pipe_pc'[l] = "read"
               /\ cap_pos'[l] = 0
               /\ frame_count'[l] = frame_count[l]
               /\ frames'[l] = frames[l]
               /\ vehicle_counts'[l] = vehicle_counts[l]
               /\ average_speeds'[l] = average_speeds[l]
               /\ detected_vehicles'[l] = detected_vehicles[l]
       /\ (pipe_pc[l] = "read" /\ rewound[l] = "eos" /\ cap_pos[l] = 0
             /\ pipe_pc'[l] \in {"detect", "inc"})
            => frame'[l] = 1]_vars

\* C16 witness: after a rewind at the end of the stream the next successful
\* read has returned the first frame, with the counter at the frames pulled.
FirstFrameAgain ==
  \E l \in Lanes :
    /\ rewound[l] = "eos"
    /\ pipe_pc[l] \in {"detect", "inc"}
    /\ cap_pos[l] = 1
    /\ frame[l] = 1
    /\ frame_count[l] >= VideoLen

(***************************************************************************)
(* Properties of get_green_time (SpecGreenTime)                            *)
(***************************************************************************)
\* C6: green_time(count) is 10 for count < 5, 35 for 5 <= count < 15 and 60
\* for count >= 15, hence monotone non-decreasing in count.
GreenTimeTiers ==
  gt_result # -1 =>
    /\ gt_count < 5 => gt_result = 10
    /\ (5 <= gt_count /\ gt_count < 15) => gt_result = 35
    /\ gt_count >= 15 => gt_result = 60
    /\ \A c \in 0 .. gt_count : get_green_time(c) <= gt_result

\* C6 witness: get_green_time has returned the middle tier at its upper edge.
GreenTimeMidTier == gt_count = 14 /\ gt_result = 35

====
